---- MODULE Spec2Model ----
(***************************************************************************)
(* State-machine model of lstm1.py: get_config, the configuration classes, *)
(* the construction of the three PTBModel objects, the epoch loop of main  *)
(* and run_epoch.  The numerical framework is represented by its visible   *)
(* effects: a parameter version that train_op advances, the learning-rate  *)
(* variable written by assign_lr, and per-batch outputs (summed loss,      *)
(* number of correct predictions, final recurrent state).                  *)
(***************************************************************************)
EXTENDS Integers, Sequences, FiniteSets, TLC

\* ------------------------------------------------------------------ bounds
\* largest per-batch sum of the per-example losses, in loss units
MaxLoss == 1
\* epoch_size of the long training data set
MaxTrainBatches == 10
\* epoch_size of the non-empty validation and test data sets
MaxEvalBatches == 2

\* ------------------------------------------------------- rational numbers
\* Python floats are modelled as exact rationals <<numerator, denominator>>.
RECURSIVE GCD(_, _)
GCD(a, b) == IF b = 0 THEN a ELSE GCD(b, a % b)

Norm(r) == LET g == GCD(r[1], r[2]) IN IF g = 0 THEN r ELSE <<r[1] \div g, r[2] \div g>>

RAdd(a, b) == Norm(<<a[1] * b[2] + b[1] * a[2], a[2] * b[2]>>)

RDivInt(a, k) == Norm(<<a[1], a[2] * k>>)

Min(a, b) == IF a < b THEN a ELSE b

Max(a, b) == IF a > b THEN a ELSE b

\* ---------------------------------------------------- configuration classes
SmallConfig ==
  [init_scale |-> <<1, 10>>, learning_rate |-> <<1, 1>>, max_grad_norm |-> 5,
   num_layers |-> 2, num_steps |-> 20, hidden_size |-> 200, max_epoch |-> 4,
   max_max_epoch |-> 13, keep_prob |-> <<1, 1>>, lr_decay |-> <<1, 2>>,
   batch_size |-> 20, vocab_size |-> 3]

MediumConfig ==
  [init_scale |-> <<1, 20>>, learning_rate |-> <<1, 1>>, max_grad_norm |-> 5,
   num_layers |-> 2, num_steps |-> 35, hidden_size |-> 650, max_epoch |-> 6,
   max_max_epoch |-> 39, keep_prob |-> <<1, 2>>, lr_decay |-> <<4, 5>>,
   batch_size |-> 20, vocab_size |-> 2]

LargeConfig ==
  [init_scale |-> <<1, 25>>, learning_rate |-> <<1, 1>>, max_grad_norm |-> 10,
   num_layers |-> 2, num_steps |-> 40, hidden_size |-> 1500, max_epoch |-> 14,
   max_max_epoch |-> 55, keep_prob |-> <<7, 20>>, lr_decay |-> <<100, 115>>,
   batch_size |-> 20, vocab_size |-> 2]

TestConfig ==
  [init_scale |-> <<1, 10>>, learning_rate |-> <<1, 1>>, max_grad_norm |-> 1,
   num_layers |-> 1, num_steps |-> 2, hidden_size |-> 2, max_epoch |-> 1,
   max_max_epoch |-> 1, keep_prob |-> <<1, 1>>, lr_decay |-> <<1, 2>>,
   batch_size |-> 20, vocab_size |-> 2]

\* the class attributes of a configuration class
ClassAttrs(cls) ==
  CASE cls = "SmallConfig" -> SmallConfig
    [] cls = "MediumConfig" -> MediumConfig
    [] cls = "LargeConfig" -> LargeConfig
    [] cls = "TestConfig" -> TestConfig

AttrNames == DOMAIN SmallConfig

\* a fresh instance: its class and an empty instance dictionary
NewInstance(cls) == [cls |-> cls, dict |-> <<>>]

\* get_config with a default instead of the raise
ConfigClassOf_Default(model) ==
  IF model = "medium" THEN "MediumConfig"
  ELSE IF model = "large" THEN "LargeConfig"
  ELSE IF model = "test" THEN "TestConfig"
  ELSE "SmallConfig"

\* get_config with the medium and large branches exchanged
ConfigClassOf_Swapped(model) ==
  IF model = "small" THEN "SmallConfig"
  ELSE IF model = "medium" THEN "LargeConfig"
  ELSE IF model = "large" THEN "MediumConfig"
  ELSE IF model = "test" THEN "TestConfig"
  ELSE "ValueError"

\* get_config's chain of comparisons on FLAGS.model; "ValueError" when none matches
ConfigClassOf(model) ==
  IF model = "small" THEN "SmallConfig"
  ELSE IF model = "medium" THEN "MediumConfig"
  ELSE IF model = "large" THEN "LargeConfig"
  ELSE IF model = "test" THEN "TestConfig"
  ELSE "ValueError"

\* a get_config that hands out one shared instance
AllocRef_Shared(h) == 1

\* where a call Class() puts the instance it constructs: a new heap cell
AllocRef(h) == Len(h) + 1

\* the heap after storing object o at reference r
Store(h, r, o) == [x \in 1..Max(Len(h), r) |-> IF x = r THEN o ELSE h[x]]

\* Python attribute lookup: the instance dictionary first, then the class
GetAttr(h, r, a) ==
  IF a \in DOMAIN h[r].dict THEN h[r].dict[a] ELSE ClassAttrs(h[r].cls)[a]

\* Python attribute assignment on an instance: writes the instance dictionary
SetAttr(h, r, a, v) ==
  [h EXCEPT ![r].dict = [x \in (DOMAIN h[r].dict) \cup {a} |->
                            IF x = a THEN v ELSE h[r].dict[x]]]

\* all attributes of the object at r, as a record
ConfigView(h, r) == [a \in AttrNames |-> GetAttr(h, r, a)]

\* ------------------------------------------------------------ model objects
NoModel == [built |-> FALSE, is_training |-> FALSE, batch_size |-> 0, num_steps |-> 0]

\* PTBModel.__init__: the shape fields read from the configuration object
PTBModel(is_training, h, r) ==
  [built |-> TRUE, is_training |-> is_training,
   batch_size |-> GetAttr(h, r, "batch_size"),
   num_steps |-> GetAttr(h, r, "num_steps")]

\* ------------------------------------------------------------ learning rate
\* A rate value base * decay^exp, kept symbolically (decay is in (0,1), so two
\* rates with the same base and decay are equal exactly when the exponents are).
Rate(base, decay, e) == [base |-> base, decay |-> decay, exp |-> e]

\* tf.Variable(0.0)
ZeroLr == Rate(<<0, 1>>, <<1, 1>>, 0)

\* the exponent of lr_decay in epoch index i (0-based)
DecayExponent(idx, max_epoch) == Max(idx - max_epoch, 0)

\* --------------------------------------------------------------- run_epoch
\* epoch_size as run_epoch computes it
EpochSize(len, batch_size, num_steps) == ((len \div batch_size) - 1) \div num_steps

\* number of (x, y) batches read_data.ptb_iterator yields
PtbIteratorCount(len, batch_size, num_steps) ==
  Max(((len \div batch_size) - 1) \div num_steps, 0)

\* m.initial_state.eval(): the zero state
ZeroState == <<0, 0>>

\* the final state session.run returns for batch number k of pass pid
FinalState(pid, k) == <<pid, k>>

\* a feed that always passes the zero state
FeedState_Zero(st) == ZeroState

\* the value fed for m.initial_state in the feed dictionary
FeedState(st) == st

\* a cost that is not divided by batch_size
Cost_NoDiv(lossSum, batch_size) == <<lossSum, 1>>

\* m.cost: reduce_sum(loss) / batch_size
Cost(lossSum, batch_size) == Norm(<<lossSum, batch_size>>)

\* iters counting batches instead of time steps
NextIters_One(it, num_steps) == it + 1

\* iters += m.num_steps
NextIters(it, num_steps) == it + num_steps

\* effect of the fetched eval_op on the shared parameters
ApplyEvalOp(op, p) == IF op = "train_op" THEN p + 1 ELSE p

\* every pass run with the training op
EvalOpOf_Train(model) == "train_op"

\* the eval_op main passes for each model
EvalOpOf(model) == IF model = "m" THEN "train_op" ELSE "no_op"

\* the verbose argument main passes for each model
VerboseOf(model) == model = "m"

\* test_data[0:8000,]
Slice8000(len) == Min(len, 8000)

\* ------------------------------------------------------------------ inputs
Flags == {"small", "medium", "large", "test", "huge", ""}

ValidFlags == {"small", "medium", "large", "test"}

\* shortest and longest data lengths whose epoch_size is e
ShortestLen(bs, ns, e) == bs * (ns * e + 1)

LongestLen(bs, ns, e) == bs * (ns * (e + 1)) + bs - 1

FlagClass(f) == IF f \in ValidFlags THEN ClassAttrs(ConfigClassOf(f)) ELSE SmallConfig

TrainLens(f) ==
  LET c == FlagClass(f) IN
    {0, ShortestLen(c.batch_size, c.num_steps, 0),
     ShortestLen(c.batch_size, c.num_steps, 1),
     LongestLen(c.batch_size, c.num_steps, MaxTrainBatches)}

ValidLens(f) ==
  LET c == FlagClass(f) IN
    {ShortestLen(c.batch_size, c.num_steps, 0),
     LongestLen(c.batch_size, c.num_steps, MaxEvalBatches)}

TestLens == {1, MaxEvalBatches + 1}

\* per-batch number of correct predictions (in_top_k summed): none or all
CorrectChoices(bs, ns) == {0, bs * ns}

VARIABLES flag, trainLen, validLen, testLen, pc, err, heap, config, eval_config,
          models, i, lr, params, m, eval_op, verbose, epoch_size, nBatches, step,
          costs, iters, true_count, state, fed, passId, totalLoss,
          paramsAfterTrain, perplexity, precision, trainCount, validCount,
          testCount

vars == <<flag, trainLen, validLen, testLen, pc, err, heap, config, eval_config,
          models, i, lr, params, m, eval_op, verbose, epoch_size, nBatches, step,
          costs, iters, true_count, state, fed, passId, totalLoss,
          paramsAfterTrain, perplexity, precision, trainCount, validCount,
          testCount>>

dataVars == <<flag, trainLen, validLen>>

configVars == <<heap, config, eval_config>>

epochVars == <<m, eval_op, verbose, epoch_size, nBatches, step, costs, iters,
               true_count, state, fed, passId, totalLoss>>

resultVars == <<paramsAfterTrain, perplexity, precision, trainCount, validCount,
                testCount>>

Init ==
  /\ flag \in Flags
  /\ trainLen \in TrainLens(flag)
  /\ validLen \in ValidLens(flag)
  /\ testLen \in TestLens
  /\ pc = "read_data"
  /\ err = "none"
  /\ heap = <<>>
  /\ config = 0
  /\ eval_config = 0
  /\ models = [m |-> NoModel, mvalid |-> NoModel, mtest |-> NoModel]
  /\ i = 0
  /\ lr = ZeroLr
  /\ params = 0
  /\ m = "none"
  /\ eval_op = "no_op"
  /\ verbose = FALSE
  /\ epoch_size = 0
  /\ nBatches = 0
  /\ step = 0
  /\ costs = <<0, 1>>
  /\ iters = 0
  /\ true_count = 0
  /\ state = ZeroState
  /\ fed = ZeroState
  /\ passId = 0
  /\ totalLoss = 0
  /\ paramsAfterTrain = 0
  /\ perplexity = <<0, 1>>
  /\ precision = <<0, 1>>
  /\ trainCount = 0
  /\ validCount = 0
  /\ testCount = 0

\* main: the data files are read and the test data cut to 8000 rows
ReadData ==
  /\ pc = "read_data"
  /\ testLen' = Slice8000(testLen)
  /\ pc' = "get_config"
  /\ UNCHANGED <<dataVars, err, configVars, models, i, lr, params, epochVars, resultVars>>

\* main: config = get_config()
GetConfig ==
  /\ pc = "get_config"
  /\ LET cls == ConfigClassOf(flag) IN
       IF cls = "ValueError"
       THEN /\ pc' = "aborted"
            /\ err' = "ValueError"
            /\ UNCHANGED configVars
       ELSE LET r == AllocRef(heap) IN
            /\ heap' = Store(heap, r, NewInstance(cls))
            /\ config' = r
            /\ pc' = "get_eval_config"
            /\ UNCHANGED <<err, eval_config>>
  /\ UNCHANGED <<dataVars, testLen, models, i, lr, params, epochVars, resultVars>>

\* main: eval_config = get_config()
GetEvalConfig ==
  /\ pc = "get_eval_config"
  /\ LET cls == ConfigClassOf(flag) IN
       IF cls = "ValueError"
       THEN /\ pc' = "aborted"
            /\ err' = "ValueError"
            /\ UNCHANGED configVars
       ELSE LET r == AllocRef(heap) IN
            /\ heap' = Store(heap, r, NewInstance(cls))
            /\ eval_config' = r
            /\ pc' = "override"
            /\ UNCHANGED <<err, config>>
  /\ UNCHANGED <<dataVars, testLen, models, i, lr, params, epochVars, resultVars>>

\* main: eval_config.batch_size = 1; eval_config.num_steps = 1
OverrideEvalConfig ==
  /\ pc = "override"
  /\ heap' = SetAttr(SetAttr(heap, eval_config, "batch_size", 1),
                     eval_config, "num_steps", 1)
  /\ pc' = "build"
  /\ UNCHANGED <<dataVars, testLen, err, config, eval_config, models, i, lr,
                 params, epochVars, resultVars>>

\* main: the three models are built over shared variables, which are initialised
BuildModels ==
  /\ pc = "build"
  /\ models' = [m |-> PTBModel(TRUE, heap, config),
                mvalid |-> PTBModel(FALSE, heap, config),
                mtest |-> PTBModel(FALSE, heap, eval_config)]
  /\ lr' = ZeroLr
  /\ params' = 0
  /\ i' = 0
  /\ pc' = "loop"
  /\ UNCHANGED <<dataVars, testLen, err, configVars, epochVars, resultVars>>

\* main: one iteration of range(max_max_epoch) begins: the rate is assigned
AssignLr ==
  /\ pc = "loop"
  /\ i < GetAttr(heap, config, "max_max_epoch")
  /\ lr' = Rate(GetAttr(heap, config, "learning_rate"),
                GetAttr(heap, config, "lr_decay"),
                DecayExponent(i, GetAttr(heap, config, "max_epoch")))
  /\ pc' = "call_m"
  /\ UNCHANGED <<dataVars, testLen, err, configVars, models, i, params, epochVars,
                 resultVars>>

\* main: range(max_max_epoch) is exhausted
LoopExit ==
  /\ pc = "loop"
  /\ i >= GetAttr(heap, config, "max_max_epoch")
  /\ pc' = "call_mtest"
  /\ UNCHANGED <<dataVars, testLen, err, configVars, models, i, lr, params,
                 epochVars, resultVars>>

\* the data length main passes with each model
DataLenOf(model) ==
  IF model = "m" THEN trainLen ELSE IF model = "mvalid" THEN validLen ELSE testLen

\* run_epoch up to the loop: epoch_size and the accumulators (the values the
\* previous call returned and printed are gone)
RunEpochStart ==
  /\ \E model \in {"m", "mvalid", "mtest"} :
       /\ pc = "call_" \o model
       /\ m' = model
       /\ eval_op' = EvalOpOf(model)
       /\ verbose' = VerboseOf(model)
       /\ epoch_size' = EpochSize(DataLenOf(model), models[model].batch_size,
                                  models[model].num_steps)
       /\ nBatches' = PtbIteratorCount(DataLenOf(model), models[model].batch_size,
                                       models[model].num_steps)
  /\ costs' = <<0, 1>>
  /\ iters' = 0
  /\ state' = ZeroState
  /\ true_count' = 0
  /\ step' = 0
  /\ totalLoss' = 0
  /\ passId' = passId + 1
  /\ perplexity' = <<0, 1>>
  /\ precision' = <<0, 1>>
  /\ pc' = "batches"
  /\ UNCHANGED <<dataVars, testLen, err, configVars, models, i, lr, params, fed,
                 paramsAfterTrain, trainCount, validCount, testCount>>

\* run_epoch: one iteration of the loop over the batches
RunBatch ==
  /\ pc = "batches"
  /\ step < nBatches
  /\ \E lossSum \in 0..MaxLoss,
        correct \in CorrectChoices(models[m].batch_size, models[m].num_steps) :
       /\ fed' = FeedState(state)
       /\ state' = FinalState(passId, step + 1)
       /\ params' = ApplyEvalOp(eval_op, params)
       /\ costs' = RAdd(costs, Cost(lossSum, models[m].batch_size))
       /\ iters' = NextIters(iters, models[m].num_steps)
       /\ true_count' = true_count + correct
       /\ totalLoss' = totalLoss + lossSum
  /\ IF verbose /\ epoch_size \div 10 = 0
     THEN /\ pc' = "aborted"
          /\ err' = "ZeroDivisionError"
          /\ UNCHANGED step
     ELSE /\ step' = step + 1
          /\ UNCHANGED <<pc, err>>
  /\ UNCHANGED <<dataVars, testLen, configVars, models, i, lr, m, eval_op, verbose,
                 epoch_size, nBatches, passId, resultVars>>

\* run_epoch after the loop: perplexity, precision, return to main
RunEpochEnd ==
  /\ pc = "batches"
  /\ step >= nBatches
  /\ IF iters = 0
     THEN /\ pc' = "aborted"
          /\ err' = "ZeroDivisionError"
          /\ UNCHANGED <<i, resultVars>>
     ELSE /\ perplexity' = RDivInt(costs, iters)
          /\ precision' = Norm(<<true_count, iters * models[m].batch_size>>)
          /\ pc' = IF m = "m" THEN "call_mvalid"
                   ELSE IF m = "mvalid" THEN "loop" ELSE "done"
          /\ i' = IF m = "mvalid" THEN i + 1 ELSE i
          /\ trainCount' = IF m = "m" THEN trainCount + 1 ELSE trainCount
          /\ validCount' = IF m = "mvalid" THEN validCount + 1 ELSE validCount
          /\ testCount' = IF m = "mtest" THEN testCount + 1 ELSE testCount
          /\ paramsAfterTrain' = IF m = "m" THEN params ELSE paramsAfterTrain
          /\ UNCHANGED err
  /\ UNCHANGED <<dataVars, testLen, configVars, models, lr, params, epochVars>>

Next ==
  \/ ReadData
  \/ GetConfig
  \/ GetEvalConfig
  \/ OverrideEvalConfig
  \/ BuildModels
  \/ AssignLr
  \/ LoopExit
  \/ RunEpochStart
  \/ RunBatch
  \/ RunEpochEnd

Spec == Init /\ [][Next]_vars

\* ------------------------------------------------------------- properties
REq(a, b) == a[1] * b[2] = b[1] * a[2]

RLeq(a, b) == a[1] * b[2] <= b[1] * a[2]

InPass == pc = "batches"

\* positions of main between the return of one run_epoch and the next call
AfterPass == pc \in {"call_mvalid", "loop", "call_mtest", "done"} /\ m # "none"

\* C1: for every model flag outside {small, medium, large, test} get_config
\* raises ValueError and returns no configuration, so main builds no model and
\* runs no training, validation or test pass.
C1_InvalidModelAborts ==
  /\ [](flag \notin ValidFlags =>
          /\ pc \in {"read_data", "get_config", "aborted"}
          /\ (pc = "aborted" => err = "ValueError")
          /\ config = 0 /\ eval_config = 0 /\ heap = <<>>
          /\ ~models.m.built /\ ~models.mvalid.built /\ ~models.mtest.built
          /\ passId = 0 /\ trainCount = 0 /\ validCount = 0 /\ testCount = 0)
  /\ [][(flag \notin ValidFlags /\ pc = "get_config")
          => (pc' = "aborted" /\ err' = "ValueError")]_vars

C1_Witness == flag = "huge" /\ pc = "aborted" /\ err = "ValueError"

\* the exponent of lr_decay the documentation gives for the k-th epoch (1-based)
C2_DocExponent(k, max_epoch) == IF k <= max_epoch THEN 0 ELSE k - max_epoch

\* C2: the rate assigned for the k-th epoch (k = 1..max_max_epoch) is
\* learning_rate for k <= max_epoch and learning_rate * lr_decay^(k - max_epoch)
\* for k > max_epoch.
C2_RateSchedule ==
  pc \in {"call_m", "batches", "call_mvalid"} /\ m # "mtest" /\ err = "none" =>
    lr = Rate(GetAttr(heap, config, "learning_rate"),
              GetAttr(heap, config, "lr_decay"),
              C2_DocExponent(i + 1, GetAttr(heap, config, "max_epoch")))

\* C3: for a valid model size main runs exactly max_max_epoch training epochs;
\* in every epoch the rate is assigned first, then the training pass runs, then
\* the validation pass; exactly one test pass is run, after the last
\* validation pass.
C3_EpochsAndTestPass ==
  flag \in ValidFlags /\ config # 0 =>
    LET mme == GetAttr(heap, config, "max_max_epoch") IN
      /\ (InPass /\ m = "m" => trainCount = i /\ validCount = i /\ i < mme)
      /\ (InPass /\ m = "mvalid" => trainCount = i + 1 /\ validCount = i)
      /\ (InPass /\ m = "mtest" => trainCount = mme /\ validCount = mme /\ testCount = 0)
      /\ (pc \in {"done", "aborted"} =>
            trainCount = mme /\ validCount = mme /\ testCount = 1)

\* the hyperparameters of the object at r, class name first
C4_Tuple(h, r) ==
  <<h[r].cls, GetAttr(h, r, "init_scale"), GetAttr(h, r, "learning_rate"),
    GetAttr(h, r, "max_grad_norm"), GetAttr(h, r, "num_layers"),
    GetAttr(h, r, "num_steps"), GetAttr(h, r, "hidden_size"),
    GetAttr(h, r, "max_epoch"), GetAttr(h, r, "max_max_epoch"),
    GetAttr(h, r, "keep_prob"), GetAttr(h, r, "lr_decay"),
    GetAttr(h, r, "batch_size"), GetAttr(h, r, "vocab_size")>>

C4_Expected(f) ==
  CASE f = "small" ->
         <<"SmallConfig", <<1, 10>>, <<1, 1>>, 5, 2, 20, 200, 4, 13, <<1, 1>>, <<1, 2>>, 20, 3>>
    [] f = "medium" ->
         <<"MediumConfig", <<1, 20>>, <<1, 1>>, 5, 2, 35, 650, 6, 39, <<1, 2>>, <<4, 5>>, 20, 2>>
    [] f = "large" ->
         <<"LargeConfig", <<1, 25>>, <<1, 1>>, 10, 2, 40, 1500, 14, 55, <<7, 20>>, <<100, 115>>, 20, 2>>
    [] f = "test" ->
         <<"TestConfig", <<1, 10>>, <<1, 1>>, 1, 1, 2, 2, 1, 1, <<1, 1>>, <<1, 2>>, 20, 2>>

\* C4: for each flag value in {small, medium, large, test} get_config returns a
\* record of the matching class carrying that class's hyperparameter values,
\* and the result depends on nothing but the flag value.
C4_ConfigMatchesFlag ==
  /\ (config # 0 => flag \in ValidFlags /\ C4_Tuple(heap, config) = C4_Expected(flag))
  /\ (pc = "override" => C4_Tuple(heap, eval_config) = C4_Expected(flag))

C4_Witness == flag = "large" /\ pc = "override"

\* C5: for a valid model size no error originates in the script's own logic,
\* whatever the data lengths and the verbose setting.
C5_NoScriptError == flag \in ValidFlags => err = "none"

\* C6: after n >= 1 batches costs / iters equals the sum of the per-example
\* losses of the n batches divided by n * batch_size * num_steps, and that
\* average is the argument of the exponential run_epoch returns.
C6_AverageLoss ==
  LET total == step * models[m].batch_size * models[m].num_steps IN
    /\ (InPass /\ step >= 1 => REq(RDivInt(costs, iters), <<totalLoss, total>>))
    /\ (AfterPass => REq(perplexity, <<totalLoss, total>>))

C6_Witness == pc = "call_mvalid" /\ step = nBatches /\ totalLoss >= 2

\* C7: after every batch 0 <= true_count <= iters * batch_size, iters grows by
\* exactly num_steps per batch, and the returned precision lies in [0, 1] and
\* is correct predictions over predictions made.
C7_PrecisionIsFraction ==
  LET bs == models[m].batch_size
      ns == models[m].num_steps IN
    /\ (InPass => /\ 0 <= true_count
                  /\ true_count <= iters * bs
                  /\ iters = step * ns)
    /\ (AfterPass => /\ RLeq(<<0, 1>>, precision)
                     /\ RLeq(precision, <<1, 1>>)
                     /\ REq(precision, <<true_count, step * bs * ns>>))

C7_Witness ==
  pc = "call_mvalid" /\ true_count > 0 /\ true_count < iters * models[m].batch_size

\* C8: within one run_epoch call the first batch is fed the zero state and
\* batch k+1 is fed the final state of batch k; every call starts again from
\* the zero state, so no state crosses a pass boundary.
C8_StateThreading ==
  InPass =>
    /\ (step = 0 => state = ZeroState)
    /\ (step >= 1 => state = FinalState(passId, step))
    /\ (step = 1 => fed = ZeroState)
    /\ (step >= 2 => fed = FinalState(passId, step - 1))

C8_Witness == InPass /\ step >= 2 /\ passId >= 3

\* a step of a validation or test call of run_epoch
C9_EvalStep ==
  \/ pc \in {"call_mvalid", "call_mtest"}
  \/ (InPass /\ m \in {"mvalid", "mtest"})

\* C9: parameters change only in a training batch and the rate only in
\* assign_lr; validation and test passes leave both unchanged, so the test
\* pass sees the parameters the last training pass left.
C9_EvalPassesKeepParams ==
  /\ [][C9_EvalStep => (params' = params /\ lr' = lr)]_vars
  /\ [][params' # params => (InPass /\ m = "m")]_vars
  /\ [][lr' # lr => pc = "loop"]_vars
  /\ []((m = "mtest" /\ pc \in {"batches", "done"}) => params = paramsAfterTrain)

C9_Witness == pc = "done" /\ params > 0 /\ params = paramsAfterTrain

\* C10: the override of batch_size and num_steps on eval_config leaves config
\* with the class's values, a later get_config would return them again, and
\* only the test model is built with batch_size 1 and num_steps 1.
C10_OverrideIsLocal ==
  (eval_config # 0 /\ pc # "override") =>
    LET c == ClassAttrs(ConfigClassOf(flag))
        later == Store(heap, AllocRef(heap), NewInstance(ConfigClassOf(flag))) IN
      /\ ConfigView(heap, config) = c
      /\ GetAttr(heap, eval_config, "batch_size") = 1
      /\ GetAttr(heap, eval_config, "num_steps") = 1
      /\ ConfigView(later, Len(later)) = c
      /\ (models.m.built =>
            /\ models.m.batch_size = c.batch_size
            /\ models.m.num_steps = c.num_steps
            /\ models.mvalid.batch_size = c.batch_size
            /\ models.mvalid.num_steps = c.num_steps
            /\ models.mtest.batch_size = 1
            /\ models.mtest.num_steps = 1)

C10_Witness == pc = "loop" /\ models.mtest.built /\ flag = "medium"

====
